---- MODULE Spec2Model ----
(***************************************************************************)
(* Off-policy G(PO)MDP gradient estimator of potion                        *)
(* (potion/estimation/offpolicy_gradients.py, potion/common/misc_utils.py).*)
(*                                                                         *)
(* A policy object holds a flat parameter vector `theta`.  A call of       *)
(* off_gpomdp_estimator evaluates score and log_pdf under the current      *)
(* vector, swaps in the target vector, evaluates log_pdf again, swaps the  *)
(* saved vector back and combines everything into a gradient estimate.     *)
(*                                                                         *)
(* Numbers.  Tensor entries are exact rationals <<p, q>> with q >= 0;      *)
(* <<0, 0>> is NaN and <<1, 0>>, <<-1, 0>> are +inf and -inf, as torch     *)
(* produces them from x / 0.  Log-densities are kept in units of ln 2, so  *)
(* that torch.exp of a log-density k * ln 2 is the rational 2^k.           *)
(***************************************************************************)
EXTENDS Integers, Sequences, FiniteSets, TLC

\* ------------------------------------------------------------- bounds
MaxN == 2
MaxH == 2
ParamDim == 1
MaxCalls == 2

\* ------------------------------------------------- rational arithmetic
Abs(x) == IF x < 0 THEN -x ELSE x

Sign(x) == IF x > 0 THEN 1 ELSE IF x < 0 THEN -1 ELSE 0

RECURSIVE GCD(_, _)
GCD(a, b) == IF b = 0 THEN a ELSE GCD(b, a % b)

Norm(p, q) ==
  IF q = 0 THEN <<Sign(p), 0>>
  ELSE LET g == GCD(Abs(p), Abs(q))
           s == Sign(q)
       IN <<(s * p) \div g, (s * q) \div g>>

Q(i) == <<i, 1>>

IsNaN(a) == a = <<0, 0>>

QAdd(a, b) ==
  IF a[2] = 0 /\ b[2] = 0
  THEN (IF a[1] = b[1] THEN a ELSE <<0, 0>>)
  ELSE Norm(a[1] * b[2] + b[1] * a[2], a[2] * b[2])

QNeg(a) == <<-a[1], a[2]>>

QSub(a, b) == QAdd(a, QNeg(b))

QMul(a, b) == Norm(a[1] * b[1], a[2] * b[2])

QRecip(a) ==
  IF a[2] = 0 THEN (IF a[1] = 0 THEN <<0, 0>> ELSE <<0, 1>>)
  ELSE IF a[1] = 0 THEN <<1, 0>>
  ELSE Norm(a[2], a[1])

QDiv(a, b) == QMul(a, QRecip(b))

RECURSIVE QPow(_, _)
QPow(a, k) == IF k = 0 THEN Q(1) ELSE QMul(a, QPow(a, k - 1))

Exp(k) == IF k >= 0 THEN QPow(Q(2), k) ELSE QDiv(Q(1), QPow(Q(2), -k))

RECURSIVE QSum(_, _)
QSum(f, k) == IF k = 0 THEN Q(0) ELSE QAdd(QSum(f, k - 1), f[k])

RECURSIVE ISum(_, _)
ISum(f, k) == IF k = 0 THEN 0 ELSE ISum(f, k - 1) + f[k]

RECURSIVE IMax(_, _)
IMax(f, k) ==
  IF k = 1 THEN f[1]
  ELSE LET r == IMax(f, k - 1) IN IF f[k] > r THEN f[k] ELSE r


\* ------------------------------------------------------ tensor helpers
\* torch.stack over zip(*batch): field k of every trajectory, stacked on a
\* new leading axis; one stacked tensor per field of the trajectory tuples.
unpack(b) == [k \in 1..Len(b[1]) |-> [n \in 1..Len(b) |-> b[n][k]]]

\* rewards * gamma ** (time index), rewards being N x H
discount(rewards, gamma) ==
  [n \in DOMAIN rewards |->
     [t \in DOMAIN rewards[n] |-> QMul(Q(rewards[n][t]), QPow(gamma, t - 1))]]

\* einsum('ijk,ij->ijk'): a[n,t,:] * b[n,t]
tensormat(a, b) ==
  [n \in DOMAIN a |-> [t \in DOMAIN a[n] |->
     [m \in DOMAIN a[n][t] |-> QMul(a[n][t][m], b[n][t])]]]

\* torch.cumsum(a, 1) of an N x H x M tensor
cumsum3(a) ==
  [n \in DOMAIN a |-> [t \in DOMAIN a[n] |-> [m \in DOMAIN a[n][t] |->
     QSum([u \in 1..t |-> a[n][u][m]], t)]]]

\* torch.cumsum(a, 1) of an N x H tensor of log-densities
cumsum2(a) ==
  [n \in DOMAIN a |-> [t \in DOMAIN a[n] |-> ISum([u \in 1..t |-> a[n][u]], t)]]

\* torch.sum(a, 0) of an N x H x M tensor: H x M
sum0(a) ==
  [t \in DOMAIN a[1] |-> [m \in DOMAIN a[1][t] |->
     QSum([n \in DOMAIN a |-> a[n][t][m]], Len(a))]]

\* torch.sum(a, 1) of an N x H x M tensor: N x M
sum1(a) ==
  [n \in DOMAIN a |-> [m \in DOMAIN a[n][1] |->
     QSum([t \in DOMAIN a[n] |-> a[n][t][m]], Len(a[n]))]]

QMat(a) == [n \in DOMAIN a |-> [t \in DOMAIN a[n] |-> Q(a[n][t])]]

Square(a) ==
  [n \in DOMAIN a |-> [t \in DOMAIN a[n] |-> [m \in DOMAIN a[n][t] |->
     QMul(a[n][t][m], a[n][t][m])]]]

\* G = torch.cumsum(tensormat(scores, mask), 1)
CumScores(scores, mask) == cumsum3(tensormat(scores, QMat(mask)))

\* n_k = torch.sum(mask, dim=0); n_k[n_k == 0.] = 1.
NK(mask) ==
  [t \in DOMAIN mask[1] |->
     LET k == ISum([n \in DOMAIN mask |-> mask[n][t]], Len(mask))
     IN IF k = 0 THEN 1 ELSE k]

\* A sign slip: the two log-densities added instead of subtracted.
LogIwsAdded(target_logps, behavioral_logps) ==
  cumsum2([n \in DOMAIN target_logps |-> [t \in DOMAIN target_logps[n] |->
             target_logps[n][t] + behavioral_logps[n][t]]])

\* log_iws = torch.cumsum(target_logps - behavioral_logps, 1)
LogIws(target_logps, behavioral_logps) ==
  cumsum2([n \in DOMAIN target_logps |-> [t \in DOMAIN target_logps[n] |->
             target_logps[n][t] - behavioral_logps[n][t]]])

\* stabilizers, _ = torch.max(log_iws, dim=1, keepdim=True)
Stabilizers(log_iws) ==
  [n \in DOMAIN log_iws |-> IMax(log_iws[n], Len(log_iws[n]))]

\* torch.exp(2*(log_iws - stabilizers)), N x H
StableWeights(log_iws, stabilizers) ==
  [n \in DOMAIN log_iws |-> [t \in DOMAIN log_iws[n] |->
     Exp(2 * (log_iws[n][t] - stabilizers[n]))]]

HadamardQ(a, b) ==
  [n \in DOMAIN a |-> [t \in DOMAIN a[n] |-> QMul(a[n][t], b[n][t])]]

\* sum_n G^2 * r * w / sum_n G^2 * w, H x M; x / 0 is NaN or inf
PetersRatio(G, disc_rewards, w) ==
  LET num == sum0(tensormat(Square(G), HadamardQ(disc_rewards, w)))
      den == sum0(tensormat(Square(G), w))
  IN [t \in DOMAIN num |-> [m \in DOMAIN num[t] |-> QDiv(num[t][m], den[t][m])]]

\* torch.zeros_like(G[0])
ZeroBaseline(G) == [t \in DOMAIN G[1] |-> [m \in DOMAIN G[1][t] |-> Q(0)]]

\* baseline[baseline != baseline] = 0
Scrub(b) ==
  [t \in DOMAIN b |-> [m \in DOMAIN b[t] |-> IF IsNaN(b[t][m]) THEN Q(0) ELSE b[t][m]]]

Baseline(kind, G, disc_rewards, log_iws, stabilizers) ==
  Scrub(IF kind = "peters"
        THEN PetersRatio(G, disc_rewards, StableWeights(log_iws, stabilizers))
        ELSE ZeroBaseline(G))

\* values = disc_rewards.unsqueeze(2) - baseline.unsqueeze(0)
Values(G, disc_rewards, baseline) ==
  [n \in DOMAIN G |-> [t \in DOMAIN G[n] |-> [m \in DOMAIN G[n][t] |->
     QSub(disc_rewards[n][t], baseline[t][m])]]]

\* G * values, elementwise
Hadamard3(a, b) ==
  [n \in DOMAIN a |-> [t \in DOMAIN a[n] |-> [m \in DOMAIN a[n][t] |->
     QMul(a[n][t][m], b[n][t][m])]]]

\* _samples = torch.sum(tensormat(G * values, mask * torch.exp(log_iws)), 1)
Samples(G, values, mask, log_iws) ==
  sum1(tensormat(Hadamard3(G, values),
                 [n \in DOMAIN mask |-> [t \in DOMAIN mask[n] |->
                    QMul(Q(mask[n][t]), Exp(log_iws[n][t]))]]))

\* torch.mean(_samples, 0)
Mean0(samples) ==
  [m \in DOMAIN samples[1] |->
     QDiv(QSum([n \in DOMAIN samples |-> samples[n][m]], Len(samples)),
          Q(Len(samples)))]

\* ------------------------------------------------------ inputs
\* Flat parameter vectors of the policy.
Thetas == [1..ParamDim -> {0, 1}]

\* The vector the policy holds when the batch is collected.
Theta0 == [m \in 1..ParamDim |-> 0]

\* State-action pairs that occur in a batch.
StateSet == {1, 2}

ActionSet == {1}

RewardSet == {0, 1}

\* Score vectors and log-densities (in units of ln 2) a policy can report.
ScoreSet == [1..ParamDim -> {Q(0), Q(1)}]

LogpSet == {0, 1}

Gammas == {<<1, 2>>, Q(1)}

Kinds == {"avg", "peters", "zero"}

Results == {"mean", "samples", "median"}

\* One trajectory of horizon h: L valid steps, then padding (mask 0).  The
\* tuple has 4 fields, or 5 with the trailing next-state field.
Trajectory(h, arity, s, a, r, L) ==
  LET four == << [t \in 1..h |-> s], [t \in 1..h |-> a], [t \in 1..h |-> r],
                 [t \in 1..h |-> IF t <= L THEN 1 ELSE 0] >>
  IN IF arity = 5 THEN Append(four, [t \in 1..h |-> s]) ELSE four

Trajectories(h, arity, ss) ==
  { Trajectory(h, arity, s, a, r, L) :
      s \in ss, a \in ActionSet, r \in RewardSet, L \in 0..h }

\* Batches of at most maxN trajectories padded to a horizon of at most maxH.
Batches(maxN, maxH, arities, ss) ==
  UNION { [1..n -> Trajectories(h, ar, ss)] :
            n \in 1..maxN, h \in 1..maxH, ar \in arities }

\* ------------------------------------------------------ state
VARIABLES
  theta,      \* the policy's flat parameter vector
  scoreMemo,  \* policy.score, on the (vector, state, action) asked so far
  logpMemo,   \* policy.log_pdf, on the (vector, state, action) asked so far
  bad,        \* the vectors under which policy.log_pdf has raised
  batch,      \* the batch handed to the estimator
  disc,       \* the discount factor handed to the estimator
  frame,      \* per caller thread: the running call's locals and position
  ncalls      \* calls made so far

vars == <<theta, scoreMemo, logpMemo, bad, batch, disc, frame, ncalls>>

Threads == {1, 2}

Idle ==
  [pc |-> "idle", err |-> "", entry |-> <<>>, target_params |-> <<>>,
   baselinekind |-> "", result |-> "", shallow |-> FALSE,
   disc_rewards |-> <<>>, G |-> <<>>, n_k |-> <<>>,
   behavioral_logps |-> <<>>, behavioral_params |-> <<>>, target_logps |-> <<>>,
   log_iws |-> <<>>, stabilizers |-> <<>>, baseline |-> <<>>, samples |-> <<>>,
   ret |-> <<>>, ops |-> <<>>]

InitWith(batches, gammas) ==
  /\ theta = Theta0
  /\ scoreMemo = <<>>
  /\ logpMemo = <<>>
  /\ bad = {}
  /\ batch \in batches
  /\ disc \in gammas
  /\ frame = [c \in Threads |-> Idle]
  /\ ncalls = 0

\* The stacked tensors of the running call.
states == unpack(batch)[1]

actions == unpack(batch)[2]

rewards == unpack(batch)[3]

mask == unpack(batch)[4]

\* The (vector, state, action) triples an evaluation under th asks for.
Keys(th) ==
  { <<th, states[n][t], actions[n][t]>> : n \in DOMAIN states, t \in DOMAIN states[1] }

\* policy.score(states, actions) under the memo m: N x H x M
score(m, th) ==
  [n \in DOMAIN states |-> [t \in DOMAIN states[n] |->
     m[<<th, states[n][t], actions[n][t]>>]]]

\* policy.log_pdf(states, actions) under the memo m: N x H
log_pdf(m, th) ==
  [n \in DOMAIN states |-> [t \in DOMAIN states[n] |->
     m[<<th, states[n][t], actions[n][t]>>]]]

\* Whether policy.log_pdf raises under th (a vector outside the policy's
\* domain, such as a non-positive scale).  The policy is deterministic: what
\* it did under th before, it does again.
Raises(th) ==
  IF th \in bad THEN {TRUE}
  ELSE IF \E k \in DOMAIN logpMemo : k[1] = th THEN {FALSE}
  ELSE BOOLEAN

\* A raise: the call ends with the exception, locals as they are.
Raise(f, e) == [f EXCEPT !.pc = "raised", !.err = e]

\* ------------------------------------------------------ the call, step by step
\* off_gpomdp_estimator's entry, down to disc_rewards.
Invoke(c, W) ==
  /\ frame[c].pc = "idle"
  /\ ncalls < W.calls
  /\ \E tp \in W.targets, kind \in W.kinds, res \in W.results, sh \in W.shallows :
       LET f == [Idle EXCEPT !.entry = theta, !.target_params = tp,
                             !.baselinekind = kind, !.result = res, !.shallow = sh]
       IN frame' = [frame EXCEPT ![c] =
            IF ~sh THEN Raise(f, "NotImplementedError")
            ELSE IF Len(unpack(batch)) # 5 THEN Raise(f, "ValueError")
            ELSE [f EXCEPT !.pc = "score", !.disc_rewards = discount(rewards, disc)]]
  /\ ncalls' = ncalls + 1
  /\ UNCHANGED <<theta, scoreMemo, logpMemo, bad, batch, disc>>

\* scores = policy.score(states, actions); G; n_k
Score(c) ==
  /\ frame[c].pc = "score"
  /\ \E new \in [Keys(theta) \ DOMAIN scoreMemo -> ScoreSet] :
       LET m == scoreMemo @@ new
       IN /\ scoreMemo' = m
          /\ frame' = [frame EXCEPT ![c] =
               [@ EXCEPT !.pc = "behavioral_logps",
                         !.G = CumScores(score(m, theta), mask),
                         !.n_k = NK(mask),
                         !.ops = Append(@, <<"score", theta>>)]]
  /\ UNCHANGED <<theta, logpMemo, bad, batch, disc, ncalls>>

\* behavioral_logps = policy.log_pdf(states, actions)
BehavioralLogps(c) ==
  /\ frame[c].pc = "behavioral_logps"
  /\ \E fails \in Raises(theta) :
       IF fails
       THEN /\ frame' = [frame EXCEPT ![c] =
                   Raise([@ EXCEPT !.ops = Append(@, <<"log_pdf", theta>>)],
                         "PolicyError")]
            /\ bad' = bad \cup {theta}
            /\ UNCHANGED logpMemo
       ELSE \E new \in [Keys(theta) \ DOMAIN logpMemo -> LogpSet] :
              LET m == logpMemo @@ new
              IN /\ logpMemo' = m
                 /\ frame' = [frame EXCEPT ![c] =
                      [@ EXCEPT !.pc = "get_flat",
                                !.behavioral_logps = log_pdf(m, theta),
                                !.ops = Append(@, <<"log_pdf", theta>>)]]
                 /\ UNCHANGED bad
  /\ UNCHANGED <<theta, scoreMemo, batch, disc, ncalls>>

\* behavioral_params = policy.get_flat()
GetFlat(c) ==
  /\ frame[c].pc = "get_flat"
  /\ frame' = [frame EXCEPT ![c] =
       [@ EXCEPT !.pc = "set_target", !.behavioral_params = theta,
                 !.ops = Append(@, <<"get_flat", theta>>)]]
  /\ UNCHANGED <<theta, scoreMemo, logpMemo, bad, batch, disc, ncalls>>

\* policy.set_from_flat(target_params)
SetTarget(c) ==
  /\ frame[c].pc = "set_target"
  /\ theta' = frame[c].target_params
  /\ frame' = [frame EXCEPT ![c] =
       [@ EXCEPT !.pc = "target_logps",
                 !.ops = Append(@, <<"set_from_flat", frame[c].target_params>>)]]
  /\ UNCHANGED <<scoreMemo, logpMemo, bad, batch, disc, ncalls>>

\* target_logps = policy.log_pdf(states, actions)
TargetLogps(c) ==
  /\ frame[c].pc = "target_logps"
  /\ \E fails \in Raises(theta) :
       IF fails
       THEN /\ frame' = [frame EXCEPT ![c] =
                   Raise([@ EXCEPT !.ops = Append(@, <<"log_pdf", theta>>)],
                         "PolicyError")]
            /\ bad' = bad \cup {theta}
            /\ UNCHANGED logpMemo
       ELSE \E new \in [Keys(theta) \ DOMAIN logpMemo -> LogpSet] :
              LET m == logpMemo @@ new
              IN /\ logpMemo' = m
                 /\ frame' = [frame EXCEPT ![c] =
                      [@ EXCEPT !.pc = "restore",
                                !.target_logps = log_pdf(m, theta),
                                !.ops = Append(@, <<"log_pdf", theta>>)]]
                 /\ UNCHANGED bad
  /\ UNCHANGED <<theta, scoreMemo, batch, disc, ncalls>>

\* A slip in the restoring call: the target vector is written once more.
RestoreTarget(c) ==
  /\ frame[c].pc = "restore"
  /\ theta' = frame[c].target_params
  /\ frame' = [frame EXCEPT ![c] =
       [@ EXCEPT !.pc = "combine",
                 !.ops = Append(@, <<"set_from_flat", frame[c].target_params>>)]]
  /\ UNCHANGED <<scoreMemo, logpMemo, bad, batch, disc, ncalls>>

\* policy.set_from_flat(behavioral_params)
Restore(c) ==
  /\ frame[c].pc = "restore"
  /\ theta' = frame[c].behavioral_params
  /\ frame' = [frame EXCEPT ![c] =
       [@ EXCEPT !.pc = "combine",
                 !.ops = Append(@, <<"set_from_flat", frame[c].behavioral_params>>)]]
  /\ UNCHANGED <<scoreMemo, logpMemo, bad, batch, disc, ncalls>>

\* A tensor assigned to a local is a value, computed once where it is assigned.
Eval(x) == LET v == x IN IF v = v THEN v ELSE v

\* log_iws, stabilizers, baseline, values, _samples and the return
Combine(c) ==
  /\ frame[c].pc = "combine"
  /\ LET f == frame[c]
         log_iws == Eval(LogIws(f.target_logps, f.behavioral_logps))
         stabilizers == Eval(Stabilizers(log_iws))
         baseline == Eval(Baseline(f.baselinekind, f.G, f.disc_rewards, log_iws, stabilizers))
         values == Eval(Values(f.G, f.disc_rewards, baseline))
         samples == Eval(Samples(f.G, values, mask, log_iws))
         g == [f EXCEPT !.log_iws = log_iws, !.stabilizers = stabilizers]
     IN frame' = [frame EXCEPT ![c] =
          IF f.baselinekind \notin {"peters", "zero"}
          THEN Raise(g, "NotImplementedError")
          ELSE [g EXCEPT !.pc = "returned", !.baseline = baseline,
                         !.samples = samples,
                         !.ret = IF f.result = "samples" THEN samples
                                 ELSE Mean0(samples)]]
  /\ UNCHANGED <<theta, scoreMemo, logpMemo, bad, batch, disc, ncalls>>

\* The caller takes the return value or the exception; the call's locals go.
Complete(c) ==
  /\ frame[c].pc \in {"returned", "raised"}
  /\ frame' = [frame EXCEPT ![c] = Idle]
  /\ UNCHANGED <<theta, scoreMemo, logpMemo, bad, batch, disc, ncalls>>

Step(c, W) ==
  \/ Invoke(c, W)
  \/ Score(c)
  \/ BehavioralLogps(c)
  \/ GetFlat(c)
  \/ SetTarget(c)
  \/ TargetLogps(c)
  \/ Restore(c)
  \/ Combine(c)
  \/ Complete(c)

\* ------------------------------------------------------ specifications
\* A caller thread making MaxCalls calls one after another, each complete
\* before the next starts, on a batch of one trajectory of one step.
Workload ==
  [targets |-> Thetas, kinds |-> Kinds, results |-> Results,
   shallows |-> BOOLEAN, calls |-> MaxCalls]

Init == InitWith(Batches(1, 1, {4, 5}, {1}), {Q(1)})

Next == \E c \in {1} : Step(c, Workload)

Spec == Init /\ [][Next]_vars

\* The module's own test: one call with target_params = pol.get_flat(), on
\* batches of up to MaxN trajectories of up to MaxH steps.
SelfWorkload ==
  [targets |-> {Theta0}, kinds |-> {"peters", "zero"}, results |-> {"mean"},
   shallows |-> {TRUE}, calls |-> 1]

InitSelf == InitWith(Batches(MaxN, MaxH, {5}, {1}), Gammas)

NextSelf == \E c \in {1} : Step(c, SelfWorkload)

SpecSelf == InitSelf /\ [][NextSelf]_vars

\* One call with any target vector, on batches whose trajectories visit
\* different state-action pairs.
NumWorkload ==
  [targets |-> Thetas, kinds |-> {"peters", "zero"}, results |-> {"mean", "samples"},
   shallows |-> {TRUE}, calls |-> 1]

InitNum == InitWith(Batches(MaxN, MaxH, {5}, StateSet), {<<1, 2>>})

NextNum == \E c \in {1} : Step(c, NumWorkload)

SpecNum == InitNum /\ [][NextNum]_vars

\* Two caller threads whose calls on the one policy interleave.
ConcWorkload ==
  [targets |-> Thetas, kinds |-> {"peters"}, results |-> {"mean"},
   shallows |-> {TRUE}, calls |-> MaxCalls]

InitConc == InitWith(Batches(1, 1, {5}, {1}), {Q(1)})

NextConc == \E c \in Threads : Step(c, ConcWorkload)

SpecConc == InitConc /\ [][NextConc]_vars

\* ------------------------------------------------------ properties
Ended(c) == frame[c].pc \in {"returned", "raised"}

\* The policy operations of one successful call, in order, each with the
\* vector the policy holds (or is given).
ExpectedOps(f) ==
  << <<"score", f.entry>>, <<"log_pdf", f.entry>>, <<"get_flat", f.entry>>,
     <<"set_from_flat", f.target_params>>, <<"log_pdf", f.target_params>>,
     <<"set_from_flat", f.entry>> >>

\* sum_t mask[n,t] * G[n,t] * (disc_rewards[n,t] - b[t]): on-policy G(PO)MDP
OnPolicySamples(G, disc_rewards, baseline) ==
  [n \in DOMAIN G |-> [m \in DOMAIN G[n][1] |->
     QSum([t \in DOMAIN G[n] |->
             QMul(QMul(Q(mask[n][t]), G[n][t][m]),
                  QSub(disc_rewards[n][t], baseline[t][m]))], Len(G[n]))]]

\* The masked Peters ratio, 0 where the denominator is 0.
MaskedPeters(G, disc_rewards, w) ==
  LET mw == HadamardQ(QMat(mask), w)
      num == sum0(tensormat(Square(G), HadamardQ(disc_rewards, mw)))
      den == sum0(tensormat(Square(G), mw))
  IN [t \in DOMAIN num |-> [m \in DOMAIN num[t] |->
        IF den[t][m] = Q(0) THEN Q(0) ELSE QDiv(num[t][m], den[t][m])]]

\* torch.exp(2 * log_iws): the weights at their true scale
TrueWeights(log_iws) ==
  [n \in DOMAIN log_iws |-> [t \in DOMAIN log_iws[n] |-> Exp(2 * log_iws[n][t])]]

\* The first h steps of every trajectory of an N x H (x M) tensor.
Truncate(a, h) == [n \in DOMAIN a |-> SubSeq(a[n], 1, h)]

\* The 'mean' estimate from the tensors of a batch.
MeanEstimate(kind, G, disc_rewards, msk, target_logps, behavioral_logps) ==
  LET log_iws == LogIws(target_logps, behavioral_logps)
      baseline == Baseline(kind, G, disc_rewards, log_iws, Stabilizers(log_iws))
      values == Values(G, disc_rewards, baseline)
  IN Mean0(sum1(tensormat(Hadamard3(G, values),
                          [n \in DOMAIN msk |-> [t \in DOMAIN msk[n] |->
                             QMul(Q(msk[n][t]), Exp(log_iws[n][t]))]])))

\* C1: on every exit path of a shallow call, a return or a raise, the
\* policy's parameter vector equals its value before the call.
C1_RestoredOnEveryExit ==
  \A c \in Threads : (Ended(c) /\ frame[c].shallow) => theta = frame[c].entry

\* C2: a shallow call with a baseline kind other than 'peters' and 'zero'
\* ends in an error, never a returned estimate, and when it ends the
\* policy's parameter vector equals its value before the call.
C2_UnsupportedBaselineRaisesRestored ==
  \A c \in Threads :
    (Ended(c) /\ frame[c].shallow /\ frame[c].baselinekind \notin {"peters", "zero"})
      => (frame[c].pc = "raised" /\ theta = frame[c].entry)

\* C3: a call with a result mode other than 'mean' and 'samples' ends in an
\* error raised to the caller; it never returns an estimate.
C3_UnsupportedResultRaises ==
  \A c \in Threads :
    (Ended(c) /\ frame[c].result \notin {"mean", "samples"}) => frame[c].pc = "raised"

\* C6: a batch of 4-field trajectory tuples is unpacked like one of 5-field
\* tuples: unpacking does not make the call fail.
C6_FourFieldBatchAccepted ==
  \A c \in Threads :
    (Ended(c) /\ Len(batch[1]) \in {4, 5}) => frame[c].err # "ValueError"

\* C9: in a successful call the policy operations are score and log_pdf under
\* the behavior vector, get_flat, set_from_flat(target_params), one log_pdf
\* under target_params, set_from_flat(saved vector), in this order; the
\* policy holds another vector than the behavior vector only between the two
\* set_from_flat calls.
C9_PolicyOperationOrder ==
  \A c \in Threads :
    LET f == frame[c]
    IN /\ f.pc = "returned" => (f.ops = ExpectedOps(f) /\ theta = f.entry)
       /\ (f.pc \notin {"idle", "raised"} /\ theta # f.entry)
            => /\ f.pc \in {"target_logps", "restore"}
               /\ theta = f.target_params
               /\ Len(f.ops) = (IF f.pc = "restore" THEN 5 ELSE 4)
               /\ f.ops = SubSeq(ExpectedOps(f), 1, Len(f.ops))

C9_Witness ==
  \E c \in Threads : frame[c].pc = "returned" /\ frame[c].target_params # frame[c].entry

\* C10: when the caller serializes its calls, every call ends with the policy
\* holding its original vector and has evaluated its behavioral quantities
\* (score, behavioral log_pdf) under that vector.
C10_SerializedCallsKeepPolicy ==
  \A c \in Threads :
    Ended(c) => /\ theta = Theta0
                /\ \A i \in 1..Len(frame[c].ops) : i <= 2 => frame[c].ops[i][2] = Theta0

\* C5: when target_params is the vector the policy holds at the call, every
\* log importance weight is 0 and the per-trajectory estimates are the
\* on-policy G(PO)MDP values; for N=1, H=2, paramDim=1, rewards [1,1],
\* gamma 1/2, mask [1,1], scores [[1],[1]] and the zero baseline the
\* estimate is 2.
C5_SelfNormalization ==
  \A c \in Threads :
    LET f == frame[c]
    IN (f.pc = "returned" /\ f.target_params = f.entry)
         => /\ \A n \in DOMAIN f.log_iws : \A t \in DOMAIN f.log_iws[n] :
                 f.log_iws[n][t] = 0
            /\ f.samples = OnPolicySamples(f.G, f.disc_rewards, f.baseline)
            /\ (/\ rewards = << <<1, 1>> >>
                /\ mask = << <<1, 1>> >>
                /\ disc = <<1, 2>>
                /\ f.G = << << <<Q(1)>>, <<Q(2)>> >> >>
                /\ f.baselinekind = "zero")
                 => f.samples = << <<Q(2)>> >>

C5_Witness ==
  \E c \in Threads :
    /\ frame[c].pc = "returned" /\ frame[c].target_params = frame[c].entry
    /\ rewards = << <<1, 1>> >> /\ mask = << <<1, 1>> >> /\ disc = <<1, 2>>
    /\ frame[c].G = << << <<Q(1)>>, <<Q(2)>> >> >>
    /\ frame[c].baselinekind = "zero"
    /\ frame[c].samples = << <<Q(2)>> >>

\* C7: the 'peters' baseline is the masked ratio: a trajectory whose mask is
\* 0 at t contributes nothing to b[t,m], and b[t,m] = 0 when the denominator
\* is 0.
C7_PetersBaselineMasked ==
  \A c \in Threads :
    LET f == frame[c]
    IN (f.pc = "returned" /\ f.baselinekind = "peters")
         => f.baseline = MaskedPeters(f.G, f.disc_rewards,
                                      StableWeights(f.log_iws, f.stabilizers))

\* C8: the 'peters' baseline computed with the stabilized weights equals the
\* one computed with the weights exp(2*log_iw) at their true scale, and every
\* stabilized exponent is <= 0.
C8_StabilizerCancels ==
  \A c \in Threads :
    LET f == frame[c]
    IN (f.pc = "returned" /\ f.baselinekind = "peters")
         => /\ f.baseline = Scrub(PetersRatio(f.G, f.disc_rewards, TrueWeights(f.log_iws)))
            /\ \A n \in DOMAIN f.log_iws : \A t \in DOMAIN f.log_iws[n] :
                 f.log_iws[n][t] - f.stabilizers[n] <= 0

\* C4: when the last timestep of every trajectory is padding (mask 0), the
\* 'mean' estimate is the one of the batch without that timestep.
C4_MaskInvariance ==
  \A c \in Threads :
    LET f == frame[c]
        h == Len(mask[1]) - 1
    IN (/\ f.pc = "returned" /\ f.result = "mean" /\ h >= 1
        /\ \A n \in DOMAIN mask : mask[n][h + 1] = 0)
         => f.ret = MeanEstimate(f.baselinekind, Truncate(f.G, h),
                                 Truncate(f.disc_rewards, h), Truncate(mask, h),
                                 Truncate(f.target_logps, h),
                                 Truncate(f.behavioral_logps, h))

\* ------------------------------------------------------ supporting facts
\* While no log_pdf evaluation has raised, a serialized call ends with the
\* policy holding its original vector, its behavioral quantities evaluated
\* under that vector (holds under Spec).
RaiseFreeSerializedKeepPolicy ==
  \A c \in Threads :
    (Ended(c) /\ bad = {})
      => /\ theta = Theta0
         /\ \A i \in 1..Len(frame[c].ops) : i <= 2 => frame[c].ops[i][2] = Theta0

\* The NotImplementedError of an unsupported baseline kind is raised after the
\* saved vector is written back (holds under Spec).
BaselineErrorAfterRestore ==
  \A c \in Threads :
    (frame[c].pc = "raised" /\ frame[c].shallow /\ frame[c].err = "NotImplementedError")
      => theta = frame[c].entry

\* Two interleaved calls, none raising, both returned: one saved the other's
\* target vector as its behavioral parameters and the policy is left with a
\* vector other than the original (reachable under SpecConc).
InterleavedCallsCorrupt ==
  /\ \A c \in Threads : frame[c].pc = "returned"
  /\ bad = {}
  /\ theta # Theta0
  /\ \E c \in Threads : frame[c].behavioral_params # Theta0

NoInterleavedCorruption == ~InterleavedCallsCorrupt

====
